---------------------------- MODULE Spec2Model ----------------------------
(***************************************************************************)
(* A model of miqro_rutos_sms/service.py: the RUTOSSMSService that polls   *)
(* a Teltonika router's sms_list, surfaces new messages on MQTT, deletes   *)
(* old ones, and sends / deletes messages on demand.                       *)
(*                                                                         *)
(* Python strings the code takes apart (lines of the listing, the field    *)
(* values cut out of them, the dedup key) are sequences of one-character   *)
(* strings, so that startswith, split, + and strptime are computed and not *)
(* assumed.  Strings the code only passes on (recipient, message text,     *)
(* device responses, topics) are TLA+ strings.                             *)
(***************************************************************************)
EXTENDS Integers, Sequences, FiniteSets, TLC

(***************************************************************************)
(* Bounds of the model.                                                    *)
(***************************************************************************)
\* poll cycles (ticks of the 20 s loop) in one behaviour
MaxPolls == 2
\* on-demand handler invocations (send/single, send/group, delete)
MaxOps == 2

(***************************************************************************)
(* Python values.                                                          *)
(***************************************************************************)
\* Python's None where a str is expected: a one-element sequence whose
\* element is not a character, so it differs from every string, "" included.
None == <<"<None>">>

IsStr(v) == v # None

\* "".join of one-character strings is the sequence itself; S(...) below
\* only names the literals used as inputs.
ColonSpace == <<":", " ">>
IndexPrefix == <<"I", "n", "d", "e", "x", ":", " ">>
DatePrefix == <<"D", "a", "t", "e", ":", " ">>
SenderPrefix == <<"S", "e", "n", "d", "e", "r", ":", " ">>
TextPrefix == <<"T", "e", "x", "t", ":", " ">>
StatusPrefix == <<"S", "t", "a", "t", "u", "s", ":", " ">>
\* the separator line of the listing: "------------------------------"
Separator == [k \in 1..30 |-> "-"]
Newline == "\n"

\* str.startswith
StartsWith(line, prefix) ==
    /\ Len(line) >= Len(prefix)
    /\ SubSeq(line, 1, Len(prefix)) = prefix

\* str.find(sep, from): the least position >= from where sep occurs, 0 if none
Find(s, sep, from) ==
    LET hits == {p \in from..(Len(s) - Len(sep) + 1) :
                    SubSeq(s, p, p + Len(sep) - 1) = sep}
    IN  IF hits = {} THEN 0
        ELSE CHOOSE p \in hits : \A q \in hits : p <= q

\* str.split(sep, maxsplit): maxsplit = -1 splits at every occurrence
RECURSIVE Split(_, _, _)
Split(s, sep, maxsplit) ==
    LET p == Find(s, sep, 1)
    IN  IF maxsplit = 0 \/ p = 0 THEN <<s>>
        ELSE <<SubSeq(s, 1, p - 1)>> \o
             Split(SubSeq(s, p + Len(sep), Len(s)), sep,
                   IF maxsplit < 0 THEN maxsplit ELSE maxsplit - 1)

\* str.splitlines for texts whose only line boundary is "\n": no empty
\* last line after a final newline, "" gives no line
RECURSIVE SplitLines(_)
SplitLines(text) ==
    IF text = <<>> THEN <<>>
    ELSE LET p == Find(text, <<Newline>>, 1)
         IN  IF p = 0 THEN <<text>>
             ELSE <<SubSeq(text, 1, p - 1)>> \o
                  SplitLines(SubSeq(text, p + 1, Len(text)))

(***************************************************************************)
(* datetime.strptime(s, "%a %b %d %H:%M:%S %Y") in the C locale.           *)
(* The value is the number of seconds from 2022-01-01 00:00:00 (naive      *)
(* local time, as datetime.now() is), or NoDate where strptime raises      *)
(* ValueError.  Modelled: the five directives separated by runs of blanks, *)
(* the capitalised English abbreviations, one or two digits for %d %H %M   *)
(* %S, four for %Y, the ranges of each directive and the length of the     *)
(* month.  Not modelled: other letter cases and other white space.         *)
(***************************************************************************)
NoDate == [ok |-> FALSE, secs |-> 0]

Digits == <<"0", "1", "2", "3", "4", "5", "6", "7", "8", "9">>

IsDigit(c) == \E k \in 1..10 : Digits[k] = c

DigitVal(c) == (CHOOSE k \in 1..10 : Digits[k] = c) - 1

IsNumber(tok, minlen, maxlen) ==
    /\ Len(tok) >= minlen
    /\ Len(tok) <= maxlen
    /\ \A k \in 1..Len(tok) : IsDigit(tok[k])

RECURSIVE NumberVal(_)
NumberVal(tok) ==
    IF tok = <<>> THEN 0
    ELSE 10 * NumberVal(SubSeq(tok, 1, Len(tok) - 1)) + DigitVal(tok[Len(tok)])

Weekdays ==
    { <<"M","o","n">>, <<"T","u","e">>, <<"W","e","d">>, <<"T","h","u">>,
      <<"F","r","i">>, <<"S","a","t">>, <<"S","u","n">> }

Months ==
    << <<"J","a","n">>, <<"F","e","b">>, <<"M","a","r">>, <<"A","p","r">>,
       <<"M","a","y">>, <<"J","u","n">>, <<"J","u","l">>, <<"A","u","g">>,
       <<"S","e","p">>, <<"O","c","t">>, <<"N","o","v">>, <<"D","e","c">> >>

IsLeap(y) == (y % 4 = 0) /\ ((y % 100 # 0) \/ (y % 400 = 0))

DaysInMonth(y, m) ==
    IF m = 2 THEN (IF IsLeap(y) THEN 29 ELSE 28)
    ELSE IF m \in {4, 6, 9, 11} THEN 30 ELSE 31

RECURSIVE DaysBeforeMonth(_, _)
DaysBeforeMonth(y, m) ==
    IF m = 1 THEN 0 ELSE DaysBeforeMonth(y, m - 1) + DaysInMonth(y, m - 1)

\* days from 0001-01-01 to the first day of year y
DaysBeforeYear(y) ==
    365 * (y - 1) + ((y - 1) \div 4) - ((y - 1) \div 100) + ((y - 1) \div 400)

\* the tokens of s between runs of blanks ("\s+" of the format's blanks)
Tokens(s) == SelectSeq(Split(s, <<" ">>, -1), LAMBDA t : t # <<>>)

strptime(s) ==
    IF ~IsStr(s) \/ s = <<>> \/ s[1] = " " \/ s[Len(s)] = " " THEN NoDate
    ELSE
    LET tok == Tokens(s)
    IN  IF Len(tok) # 5 THEN NoDate
        ELSE
        LET hms == Split(tok[4], <<":">>, -1)
        IN  IF \/ tok[1] \notin Weekdays
               \/ ~\E m \in 1..12 : Months[m] = tok[2]
               \/ ~IsNumber(tok[3], 1, 2)
               \/ Len(hms) # 3
               \/ \E k \in 1..Len(hms) : ~IsNumber(hms[k], 1, 2)
               \/ ~IsNumber(tok[5], 4, 4)
            THEN NoDate
            ELSE
            LET m == CHOOSE k \in 1..12 : Months[k] = tok[2]
                d == NumberVal(tok[3])
                y == NumberVal(tok[5])
                hh == NumberVal(hms[1])
                mm == NumberVal(hms[2])
                ss == NumberVal(hms[3])
            IN  IF \/ y < 1
                   \/ d < 1
                   \/ d > DaysInMonth(y, m)
                   \/ hh > 23
                   \/ mm > 59
                   \/ ss > 59
                THEN NoDate
                ELSE [ok |-> TRUE,
                      secs |-> (DaysBeforeYear(y) + DaysBeforeMonth(y, m) + (d - 1)
                                - DaysBeforeYear(2022)) * 86400
                               + hh * 3600 + mm * 60 + ss]

(***************************************************************************)
(* Configuration: service_config.get("delete_after", None) is None or a    *)
(* dict of timedelta keyword arguments.  A timedelta is its total seconds. *)
(***************************************************************************)
EmptyDict == [k \in {} |-> 0]

NoConfig == [is_none |-> TRUE, kwargs |-> EmptyDict]

Dict(kw) == [is_none |-> FALSE, kwargs |-> kw]

\* bool(x) of an Optional[dict]
DictTruthy(cfg) == ~cfg.is_none /\ DOMAIN cfg.kwargs # {}

\* timedelta(**kwargs) for the keywords days and seconds
timedelta(kwargs) ==
    [is_none |-> FALSE,
     secs |-> (IF "days" \in DOMAIN kwargs THEN kwargs.days * 86400 ELSE 0)
              + (IF "seconds" \in DOMAIN kwargs THEN kwargs.seconds ELSE 0)]

NoTimedelta == [is_none |-> TRUE, secs |-> 0]

\* bool(x) of an Optional[timedelta]: None and timedelta(0) are both false
TimedeltaTruthy(td) == ~td.is_none /\ td.secs # 0

\* __init__: self.delete_after from the configuration
InitDeleteAfter(cfg) ==
    IF DictTruthy(cfg) THEN timedelta(cfg.kwargs) ELSE NoTimedelta

(***************************************************************************)
(* The parsing loop of read_and_publish: the five local variables and what *)
(* one line does to them.                                                  *)
(***************************************************************************)
NoSlots ==
    [index |-> None, date |-> None, sender |-> None, text |-> None,
     status |-> None]

\* the branch of the if / elif chain that a line takes
LineKind(line) ==
    IF StartsWith(line, IndexPrefix) THEN "index"
    ELSE IF StartsWith(line, DatePrefix) THEN "date"
    ELSE IF StartsWith(line, SenderPrefix) THEN "sender"
    ELSE IF StartsWith(line, TextPrefix) THEN "text"
    ELSE IF StartsWith(line, StatusPrefix) THEN "status"
    ELSE IF line = Separator THEN "separator"
    ELSE "other"

\* line.split(": ")[1], the Index branch: no maxsplit
IndexValue(line) == Split(line, ColonSpace, -1)[2]

\* line.split(": ", 1)[1], the other four branches
FieldValue(line) == Split(line, ColonSpace, 1)[2]

\* the locals after the loop body has run on one line
ParseLine(locals, line) ==
    LET kind == LineKind(line)
    IN  IF kind = "index" THEN [locals EXCEPT !.index = IndexValue(line)]
        ELSE IF kind = "date" THEN [locals EXCEPT !.date = FieldValue(line)]
        ELSE IF kind = "sender" THEN [locals EXCEPT !.sender = FieldValue(line)]
        ELSE IF kind = "text" THEN [locals EXCEPT !.text = FieldValue(line)]
        ELSE IF kind = "status" THEN [locals EXCEPT !.status = FieldValue(line)]
        ELSE IF kind = "separator" THEN NoSlots
        ELSE locals

(***************************************************************************)
(* message_arrived.                                                        *)
(***************************************************************************)
\* message["index"] + message["date"] + message["sender"] raises TypeError
\* when an operand is None
ConcatRaises(message) ==
    ~IsStr(message.index) \/ ~IsStr(message.date) \/ ~IsStr(message.sender)

\* the dedup key: index = message["index"] + message["date"] + message["sender"]
Identity(message) == message.index \o message.date \o message.sender

\* if not index in self.messages_seen
IsNew(message, seen) == Identity(message) \notin seen

(***************************************************************************)
(* Inputs: the values the device and the bus supply.                       *)
(***************************************************************************)
\* "Sat Jan 1 00:00:00 2022": second 0 of the model's clock
DateOld ==
    << "S", "a", "t", " ", "J", "a", "n", " ", "1", " ", "0", "0", ":",
       "0", "0", ":", "0", "0", " ", "2", "0", "2", "2" >>

\* "Mon Jan 3 00:00:00 2022": second 172800
DateNew ==
    << "M", "o", "n", " ", "J", "a", "n", " ", "3", " ", "0", "0", ":",
       "0", "0", ":", "0", "0", " ", "2", "0", "2", "2" >>

\* a Date value that strptime rejects
DateBad == <<"x">>

\* the values of datetime.now() in a behaviour: Jan 3 01:00:00, Jan 4
\* 00:00:00 (DateNew is exactly one day old) and Jan 4 00:00:01
Instants == {176400, 259200, 259201}

\* delete_after of the configuration: absent, {}, {seconds: 0}, {days: 1}
Configs ==
    { NoConfig, Dict(EmptyDict), Dict([seconds |-> 0]), Dict([days |-> 1]) }

Block(index, date, sender, text, status) ==
    << IndexPrefix \o index, DatePrefix \o date, SenderPrefix \o sender,
       TextPrefix \o text, StatusPrefix \o status >>

Hi == <<"h", "i">>
Read == <<"r", "e", "a", "d">>

\* the message (4, DateOld, T) that the other listings vary
BlockOld == Block(<<"4">>, DateOld, <<"T">>, Hi, Read)
BlockNew == Block(<<"5">>, DateNew, <<"T">>, Hi, Read)

\* the listing of the module docstring: two blocks, each followed by the
\* separator
LinesTwo == BlockOld \o <<Separator>> \o BlockNew \o <<Separator>>

\* (4, DateOld, T) with one field changed, and a message whose fields differ
\* from it in date and sender but concatenate to the same string
LinesVariants ==
    Block(<<"5">>, DateOld, <<"T">>, Hi, Read) \o <<Separator>>
    \o Block(<<"4">>, DateNew, <<"T">>, Hi, Read) \o <<Separator>>
    \o Block(<<"4">>, DateOld, <<"U">>, Hi, Read) \o <<Separator>>
    \o Block(<<"4">>, DateOld \o <<"T">>, <<>>, Hi, Read) \o <<Separator>>

\* every value holds a colon-space
LinesColon ==
    Block(<<"4", ":", " ", "5">>, DateOld \o <<":", " ", "x">>,
          <<"T", ":", " ", "U">>, <<"a", ":", " ", "b">>,
          <<"r", ":", " ", "w">>) \o <<Separator>>

\* a block without a Sender: line, then a complete block
LinesPartial ==
    << IndexPrefix \o <<"6">>, DatePrefix \o DateOld, TextPrefix \o Hi,
       StatusPrefix \o Read, Separator >> \o BlockNew \o <<Separator>>

\* a complete block, then a block that the input ends in, without Status:
LinesTrailing ==
    BlockOld \o <<Separator>>
    \o << IndexPrefix \o <<"7">>, DatePrefix \o DateNew,
          SenderPrefix \o <<"V">>, TextPrefix \o <<"l", "o", "s", "t">> >>

\* a block whose date does not parse, then a complete block
LinesBadDate ==
    Block(<<"8">>, DateBad, <<"T">>, Hi, Read) \o <<Separator>>
    \o BlockOld \o <<Separator>>

\* two blocks with no separator between them, the second without Sender:
\* and Text:, and a line the loop ignores
LinesNoSeparator ==
    BlockNew
    \o << <<"n", "o", "i", "s", "e">>, IndexPrefix \o <<"9">>,
          DatePrefix \o DateOld, StatusPrefix \o Read, Separator >>

\* response.text of a listing: every line ends in "\n"
RECURSIVE JoinLines(_)
JoinLines(ls) ==
    IF ls = <<>> THEN <<>>
    ELSE Head(ls) \o <<Newline>> \o JoinLines(Tail(ls))

\* the texts the device answers sms_list with, by name
Listing ==
    [ two |-> JoinLines(LinesTwo),
      variants |-> JoinLines(LinesVariants),
      colon |-> JoinLines(LinesColon),
      partial |-> JoinLines(LinesPartial),
      trailing |-> JoinLines(LinesTrailing),
      baddate |-> JoinLines(LinesBadDate),
      noseparator |-> JoinLines(LinesNoSeparator) ]

Listings == DOMAIN Listing

\* response.text.splitlines() of each of them
ListingLines ==
    [ two |-> SplitLines(Listing.two),
      variants |-> SplitLines(Listing.variants),
      colon |-> SplitLines(Listing.colon),
      partial |-> SplitLines(Listing.partial),
      trailing |-> SplitLines(Listing.trailing),
      baddate |-> SplitLines(Listing.baddate),
      noseparator |-> SplitLines(Listing.noseparator) ]

\* device responses to sms_send and sms_delete
Responses == {"OK", "ERROR"}

Username == "user1"
Password == "user_pass"

(***************************************************************************)
(* State.                                                                  *)
(***************************************************************************)
VARIABLES
    config,         \* service_config.get("delete_after", None)
    delete_after,   \* self.delete_after
    messages_seen,  \* self.messages_seen
    now,            \* what datetime.now() returns
    pc,             \* read_and_publish: "idle", "loop", "retention"
    cycle,          \* the number of calls of read_and_publish so far
    sms_list,       \* the response of sms_list in the running cycle (its name)
    pos,            \* the position of the loop in lines
    slots,          \* the locals index, date, sender, text, status
    ops,            \* the handler invocations, in the order of their start
    device,         \* the listings the device may answer sms_list with
    fetched,        \* per cycle, the response of sms_list (history)
    trace           \* what read_and_publish did (history)

vars ==
    << config, delete_after, messages_seen, now, pc, cycle, sms_list, pos,
       slots, ops, device, fetched, trace >>

service == <<config, delete_after, device>>
poll == <<pc, cycle, sms_list, pos, slots, fetched>>

(***************************************************************************)
(* The histories: one entry per HTTP request (with its outcome), per       *)
(* self.publish, per call of message_arrived and per exception that leaves *)
(* a handler.  trace is the history of read_and_publish (op 0), and each   *)
(* handler invocation keeps its own in its frame (op is its number); at is *)
(* the position of the line in the cycle.                                  *)
(***************************************************************************)
NoArg == <<>>

Event(kind, op, name, arg, ok, text) ==
    [kind |-> kind, op |-> op, cycle |-> IF op = 0 THEN cycle ELSE 0,
     at |-> IF op = 0 /\ pc # "idle" THEN pos ELSE 0,
     name |-> name, arg |-> arg, ok |-> ok, text |-> text]

\* requests.get(self.url + endpoint, params=...) that returns response.text
Request(op, endpoint, params, text) ==
    Event("request", op, endpoint, params, TRUE, text)

\* requests.get that raises: the device is unreachable or times out
RequestFailed(op, endpoint, params) ==
    Event("request", op, endpoint, params, FALSE, "")

\* self.publish(topic, payload)
Publish(op, topic, arg, text) == Event("publish", op, topic, arg, TRUE, text)

Raise(op, exception) == Event("raise", op, exception, NoArg, FALSE, "")

Call(message) == Event("call", 0, "message_arrived", message, TRUE, "")

\* delete_message(index): the request and, when it returned, the publication
DeleteParams(index) ==
    [username |-> Username, password |-> Password, number |-> index]

DeleteRequest(op, index, text) ==
    Request(op, "sms_delete", DeleteParams(index), text)

DeleteRequestFailed(op, index) ==
    RequestFailed(op, "sms_delete", DeleteParams(index))

\* a delete_message that publishes "deleted" with an empty payload
DeletePublishEmpty(op, text) == Publish(op, "deleted", NoArg, "")

DeletePublish(op, text) == Publish(op, "deleted", NoArg, text)

(***************************************************************************)
(* __init__                                                                *)
(***************************************************************************)
Init ==
    /\ config \in Configs
    /\ delete_after = InitDeleteAfter(config)
    /\ messages_seen = {}
    /\ now \in Instants
    /\ pc = "idle"
    /\ cycle = 0
    /\ sms_list = ""
    /\ pos = 0
    /\ slots = NoSlots
    /\ ops = <<>>
    /\ device = Listings
    /\ fetched = <<>>
    /\ trace = <<>>

\* the clock advances.  The service reads it in the retention check only
\* (datetime.now(), line 188), so it is enough that it advances between two
\* cycles and right before it is read.
Tick ==
    /\ pc \in {"idle", "retention"}
    /\ \E t \in Instants : t > now /\ now' = t
    /\ UNCHANGED <<service, messages_seen, poll, ops, trace>>

(***************************************************************************)
(* read_and_publish, the loop of miqro that runs every 20 seconds.  An     *)
(* exception that leaves it ends the cycle; the next tick starts a new     *)
(* one.                                                                    *)
(***************************************************************************)
ListParams == [username |-> Username, password |-> Password]

\* the locals after the loop body has run on the first k lines
RECURSIVE LocalsAfter(_, _, _)
LocalsAfter(ls, locals, k) ==
    IF k = 0 THEN locals
    ELSE ParseLine(LocalsAfter(ls, locals, k - 1), ls[k])

\* the records a listing holds: what the loop hands to message_arrived when
\* it runs over all the lines, one per Status: line
Records(ls, locals) ==
    LET at == SelectSeq([k \in 1..Len(ls) |-> k],
                        LAMBDA k : LineKind(ls[k]) = "status")
    IN  [r \in 1..Len(at) |-> LocalsAfter(ls, locals, at[r])]

Fetched(listing) == [ok |-> TRUE, listing |-> listing]

NotFetched == [ok |-> FALSE, listing |-> ""]

\* the records of each listing
ListingRecords ==
    [ two |-> Records(ListingLines.two, NoSlots),
      variants |-> Records(ListingLines.variants, NoSlots),
      colon |-> Records(ListingLines.colon, NoSlots),
      partial |-> Records(ListingLines.partial, NoSlots),
      trailing |-> Records(ListingLines.trailing, NoSlots),
      baddate |-> Records(ListingLines.baddate, NoSlots),
      noseparator |-> Records(ListingLines.noseparator, NoSlots) ]

\* what cycle c was answered: its lines and its records
FetchedLines(c) == ListingLines[fetched[c].listing]

FetchedRecords(c) == ListingRecords[fetched[c].listing]

\* the records of the listings and their Date values
ListedRecords ==
    UNION { {ListingRecords[n][k] : k \in 1..Len(ListingRecords[n])} :
            n \in Listings }

ListedDates == {message.date : message \in ListedRecords}

\* datetime.strptime of each of these Date values, computed once
StrptimeOf == {<<d, strptime(d)>> : d \in ListedDates}

\* datetime.strptime(message["date"], "%a %b %d %H:%M:%S %Y")
Parsed(date) ==
    IF date \in ListedDates
    THEN (CHOOSE pr \in StrptimeOf : pr[1] = date)[2]
    ELSE strptime(date)

\* the Date values that strptime refuses
UnparseableDates == {d \in ListedDates : ~strptime(d).ok}

\* datetime.strptime raises ValueError: reached only when delete_after is true
StrptimeRaises(message, td) == TimedeltaTruthy(td) /\ ~Parsed(message.date).ok

\* a retention check that compares ages without asking whether the date parsed
ShouldDeleteUnparsed(message, td, t) ==
    /\ TimedeltaTruthy(td)
    /\ t - Parsed(message.date).secs > td.secs

\* if self.delete_after: ... if datetime.now() - date > self.delete_after
ShouldDelete(message, td, t) ==
    /\ TimedeltaTruthy(td)
    /\ Parsed(message.date).ok
    /\ t - Parsed(message.date).secs > td.secs

\* for line in response.text.splitlines()
lines == ListingLines[sms_list]

\* requests.get(sms_list) returns: the locals are set and the loop starts
PollFetch ==
    /\ pc = "idle"
    /\ cycle < MaxPolls
    /\ \E listing \in device :
        /\ sms_list' = listing
        /\ fetched' = Append(fetched, Fetched(listing))
        /\ trace' = Append(trace,
               [Request(0, "sms_list", ListParams, "") EXCEPT !.cycle = cycle + 1])
    /\ cycle' = cycle + 1
    /\ pc' = "loop"
    /\ pos' = 1
    /\ slots' = NoSlots
    /\ UNCHANGED <<service, messages_seen, now, ops>>

\* a cycle that, when its sms_list request raises, forgets what was seen
PollFetchFailsAndForgets ==
    /\ pc = "idle"
    /\ cycle < MaxPolls
    /\ cycle' = cycle + 1
    /\ fetched' = Append(fetched, NotFetched)
    /\ messages_seen' = {}
    /\ trace' = trace
           \o << [RequestFailed(0, "sms_list", ListParams) EXCEPT !.cycle = cycle + 1],
                 [Raise(0, "ConnectionError") EXCEPT !.cycle = cycle + 1] >>
    /\ UNCHANGED <<service, now, pc, sms_list, pos, slots, ops>>

\* requests.get(sms_list) raises
PollFetchFails ==
    /\ pc = "idle"
    /\ cycle < MaxPolls
    /\ cycle' = cycle + 1
    /\ fetched' = Append(fetched, NotFetched)
    /\ trace' = trace
           \o << [RequestFailed(0, "sms_list", ListParams) EXCEPT !.cycle = cycle + 1],
                 [Raise(0, "ConnectionError") EXCEPT !.cycle = cycle + 1] >>
    /\ UNCHANGED <<service, messages_seen, now, pc, sms_list, pos, slots, ops>>

AtLine == pc = "loop" /\ pos <= Len(lines)

\* a line other than a Status: line
PollLine ==
    /\ AtLine
    /\ LineKind(lines[pos]) # "status"
    /\ slots' = ParseLine(slots, lines[pos])
    /\ pos' = pos + 1
    /\ UNCHANGED <<service, messages_seen, now, pc, cycle, sms_list, ops,
                   fetched, trace>>

\* the message built at a Status: line
Message == ParseLine(slots, lines[pos])

AtStatus == AtLine /\ LineKind(lines[pos]) = "status"

\* message_arrived is called and raises TypeError at the concatenation
PollArrivedTypeError ==
    /\ AtStatus
    /\ ConcatRaises(Message)
    /\ slots' = Message
    /\ trace' = trace \o <<Call(Message), Raise(0, "TypeError")>>
    /\ pc' = "idle"
    /\ UNCHANGED <<service, messages_seen, now, cycle, sms_list, pos, ops,
                   fetched>>

\* message_arrived is called: the dedup step, up to the retention check
PollArrived ==
    /\ AtStatus
    /\ ~ConcatRaises(Message)
    /\ slots' = Message
    /\ trace' = trace \o (IF IsNew(Message, messages_seen)
                          THEN <<Call(Message), Publish(0, "received", Message, "")>>
                          ELSE <<Call(Message)>>)
    /\ messages_seen' = messages_seen \cup {Identity(Message)}
    /\ pc' = "retention"
    /\ UNCHANGED <<service, now, cycle, sms_list, pos, ops, fetched>>

\* the retention check decides against a delete: message_arrived returns
PollKeep ==
    /\ pc = "retention"
    /\ ~StrptimeRaises(slots, delete_after)
    /\ ~ShouldDelete(slots, delete_after, now)
    /\ pc' = "loop"
    /\ pos' = pos + 1
    /\ UNCHANGED <<service, messages_seen, now, cycle, sms_list, slots, ops,
                   fetched, trace>>

\* the retention check raises ValueError at strptime
PollValueError ==
    /\ pc = "retention"
    /\ StrptimeRaises(slots, delete_after)
    /\ trace' = Append(trace, Raise(0, "ValueError"))
    /\ pc' = "idle"
    /\ UNCHANGED <<service, messages_seen, now, cycle, sms_list, pos, slots,
                   ops, fetched>>

\* a retention delete that also takes the identity out of the dedup set
PollDeleteAndForget ==
    /\ pc = "retention"
    /\ ShouldDelete(slots, delete_after, now)
    /\ \E text \in Responses :
        trace' = trace \o << DeleteRequest(0, slots.index, text),
                            DeletePublish(0, text) >>
    /\ messages_seen' = messages_seen \ {Identity(slots)}
    /\ pc' = "loop"
    /\ pos' = pos + 1
    /\ UNCHANGED <<service, now, cycle, sms_list, slots, ops, fetched>>

\* a retention delete that publishes "deleted" before it asks the device
PollDeletePublishesFirst ==
    /\ pc = "retention"
    /\ ShouldDelete(slots, delete_after, now)
    /\ \E text \in Responses :
        trace' = trace \o << DeletePublish(0, text),
                            DeleteRequest(0, slots.index, text) >>
    /\ pc' = "loop"
    /\ pos' = pos + 1
    /\ UNCHANGED <<service, messages_seen, now, cycle, sms_list, slots, ops,
                   fetched>>

\* the retention check calls delete_message: its request returns, it
\* publishes "deleted", and message_arrived returns to the loop
PollDelete ==
    /\ pc = "retention"
    /\ ShouldDelete(slots, delete_after, now)
    /\ \E text \in Responses :
        trace' = trace \o << DeleteRequest(0, slots.index, text),
                            DeletePublish(0, text) >>
    /\ pc' = "loop"
    /\ pos' = pos + 1
    /\ UNCHANGED <<service, messages_seen, now, cycle, sms_list, slots, ops,
                   fetched>>

\* the retention check calls delete_message and its request raises
PollDeleteFails ==
    /\ pc = "retention"
    /\ ShouldDelete(slots, delete_after, now)
    /\ trace' = trace \o << DeleteRequestFailed(0, slots.index),
                            Raise(0, "ConnectionError") >>
    /\ pc' = "idle"
    /\ UNCHANGED <<service, messages_seen, now, cycle, sms_list, pos, slots,
                   ops, fetched>>

\* the loop is through the lines: read_and_publish returns
PollReturn ==
    /\ pc = "loop"
    /\ pos > Len(lines)
    /\ pc' = "idle"
    /\ UNCHANGED <<service, messages_seen, now, cycle, sms_list, pos, slots,
                   ops, fetched, trace>>

NextPoll ==
    \/ Tick
    \/ PollFetch
    \/ PollFetchFails
    \/ PollLine
    \/ PollArrivedTypeError
    \/ PollArrived
    \/ PollKeep
    \/ PollValueError
    \/ PollDelete
    \/ PollDeleteFails
    \/ PollReturn

SpecPoll == Init /\ [][NextPoll]_vars

(***************************************************************************)
(* The handlers of the bus: send/single/#, send/group/# and delete.  Each  *)
(* invocation is a frame in ops with the history of what it did: its       *)
(* request and the publication of the response, or its request that raised *)
(* and the exception that leaves the handler.                              *)
(***************************************************************************)
Numbers == {"0037060000001", "112"}
Groups == {"family"}
Texts == {"hello"}
\* payloads of the delete topic: message indexes
DeletePayloads == { <<"4">> }

Frame(fn, arg, text, state, response, log) ==
    [fn |-> fn, arg |-> arg, text |-> text, state |-> state,
     response |-> response, log |-> log]

\* the params of the two sms_send requests
SingleParams(number, text) ==
    [username |-> Username, password |-> Password, number |-> number,
     text |-> text]

GroupParams(group, text) ==
    [username |-> Username, password |-> Password, group |-> group,
     text |-> text]

\* a handle_send_single that confirms on the topic of the groups
SingleTopicOfGroups(number) == "sent/group/" \o number

\* f"sent/single/{number}" and f"sent/group/{group}"
SingleTopic(number) == "sent/single/" \o number

GroupTopic(group) == "sent/group/" \o group

NewOp == Len(ops) + 1

\* a handler that empties the dedup set when it publishes
PublishedAndForgets(fn, arg, text, response, request, publication) ==
    /\ Len(ops) < MaxOps
    /\ ops' = Append(ops, Frame(fn, arg, text, "published", response,
                                <<request, publication>>))
    /\ messages_seen' = {}
    /\ UNCHANGED <<service, now, poll, trace>>

\* a handler runs: its request returns response and it publishes
Published(fn, arg, text, response, request, publication) ==
    /\ Len(ops) < MaxOps
    /\ ops' = Append(ops, Frame(fn, arg, text, "published", response,
                                <<request, publication>>))
    /\ UNCHANGED <<service, messages_seen, now, poll, trace>>

\* a handler that catches the exception of its request and publishes
FailedAndPublishes(fn, arg, text, request) ==
    /\ Len(ops) < MaxOps
    /\ ops' = Append(ops, Frame(fn, arg, text, "published", "",
                                <<request, Publish(NewOp, "sent", NoArg, "")>>))
    /\ UNCHANGED <<service, messages_seen, now, poll, trace>>

\* a handler runs and its request raises: the exception leaves the handler
Failed(fn, arg, text, request) ==
    /\ Len(ops) < MaxOps
    /\ ops' = Append(ops, Frame(fn, arg, text, "failed", "",
                                <<request, Raise(NewOp, "ConnectionError")>>))
    /\ UNCHANGED <<service, messages_seen, now, poll, trace>>

\* handle_send_single(payload, topic_postfix): requests.get returns, then
\* self.publish(f"sent/single/{number}", response.text)
HandleSendSingle ==
    \E number \in Numbers, text \in Texts, response \in Responses :
        Published("handle_send_single", number, text, response,
                  Request(NewOp, "sms_send", SingleParams(number, text), response),
                  Publish(NewOp, SingleTopic(number), NoArg, response))

\* handle_send_single: requests.get raises
HandleSendSingleFails ==
    \E number \in Numbers, text \in Texts :
        Failed("handle_send_single", number, text,
               RequestFailed(NewOp, "sms_send", SingleParams(number, text)))

\* handle_send_group(payload, topic_postfix): requests.get returns, then
\* self.publish(f"sent/group/{group}", response.text)
HandleSendGroup ==
    \E group \in Groups, text \in Texts, response \in Responses :
        Published("handle_send_group", group, text, response,
                  Request(NewOp, "sms_send", GroupParams(group, text), response),
                  Publish(NewOp, GroupTopic(group), NoArg, response))

\* handle_send_group: requests.get raises
HandleSendGroupFails ==
    \E group \in Groups, text \in Texts :
        Failed("handle_send_group", group, text,
               RequestFailed(NewOp, "sms_send", GroupParams(group, text)))

\* handle_delete(payload) calls delete_message(payload): requests.get
\* returns, then self.publish("deleted", response.text)
HandleDelete ==
    \E index \in DeletePayloads, response \in Responses :
        Published("handle_delete", index, "", response,
                  DeleteRequest(NewOp, index, response),
                  DeletePublish(NewOp, response))

\* handle_delete: requests.get of delete_message raises
HandleDeleteFails ==
    \E index \in DeletePayloads :
        Failed("handle_delete", index, "", DeleteRequestFailed(NewOp, index))

NextOps ==
    \/ HandleSendSingle
    \/ HandleSendSingleFails
    \/ HandleSendGroup
    \/ HandleSendGroupFails
    \/ HandleDelete
    \/ HandleDeleteFails

SpecOps == Init /\ [][NextOps]_vars

(***************************************************************************)
(* The service as a whole: the loop and the handlers interleave at every   *)
(* step.  To keep the product of the two small, this specification starts  *)
(* with retention of one day, a device that answers with three listings,   *)
(* runs MaxBothPolls cycles and MaxBothOps handler invocations.            *)
(***************************************************************************)
MaxBothPolls == 1
MaxBothOps == 1

InitBoth ==
    /\ config = Dict([days |-> 1])
    /\ delete_after = InitDeleteAfter(config)
    /\ messages_seen = {}
    /\ now = 259200
    /\ pc = "idle"
    /\ cycle = 0
    /\ sms_list = ""
    /\ pos = 0
    /\ slots = NoSlots
    /\ ops = <<>>
    /\ device = {"two", "baddate", "partial"}
    /\ fetched = <<>>
    /\ trace = <<>>

Next ==
    \/ Tick
    \/ PollFetch /\ cycle' <= MaxBothPolls
    \/ PollFetchFails /\ cycle' <= MaxBothPolls
    \/ PollLine
    \/ PollArrivedTypeError
    \/ PollArrived
    \/ PollKeep
    \/ PollValueError
    \/ PollDelete
    \/ PollDeleteFails
    \/ PollReturn
    \/ HandleSendSingle /\ Len(ops') <= MaxBothOps
    \/ HandleSendSingleFails /\ Len(ops') <= MaxBothOps
    \/ HandleSendGroup /\ Len(ops') <= MaxBothOps
    \/ HandleSendGroupFails /\ Len(ops') <= MaxBothOps
    \/ HandleDelete /\ Len(ops') <= MaxBothOps
    \/ HandleDeleteFails /\ Len(ops') <= MaxBothOps

Spec == InitBoth /\ [][Next]_vars

(***************************************************************************)
(* Reading the histories.                                                  *)
(***************************************************************************)
Triple(message) == <<message.index, message.date, message.sender>>

StrTriple(t) == \A k \in 1..3 : IsStr(t[k])

\* the two triples differ in exactly one of index, date, sender
OneFieldDiffers(t, u) == Cardinality({k \in 1..3 : t[k] # u[k]}) = 1

\* positions in trace of the "received" publications, of the calls of
\* message_arrived, of the sms_delete requests, of the exceptions
ReceivedAt ==
    {i \in 1..Len(trace) : trace[i].kind = "publish" /\ trace[i].name = "received"}

CallAt == {i \in 1..Len(trace) : trace[i].kind = "call"}

DeleteAt ==
    {i \in 1..Len(trace) : trace[i].kind = "request" /\ trace[i].name = "sms_delete"}

RaiseAt == {i \in 1..Len(trace) : trace[i].kind = "raise"}

\* read_and_publish number c has returned or was left by an exception
CycleOver(c) == c < cycle \/ (c = cycle /\ pc = "idle")

\* the listing of cycle c holds a record, closed by a Status: line, with
\* the triple t
Lists(c, t) ==
    /\ fetched[c].ok
    /\ \E k \in 1..Len(FetchedRecords(c)) : Triple(FetchedRecords(c)[k]) = t

\* a "received" publication for the triple t, in a cycle up to c
ReceivedBy(c, t) ==
    \E i \in ReceivedAt : Triple(trace[i].arg) = t /\ trace[i].cycle <= c

(***************************************************************************)
(* C1  For every (index, date, sender) triple at most one "received" event *)
(* is ever published, and that event is published in the first poll cycle  *)
(* whose listing holds the triple.                                         *)
(***************************************************************************)
AtMostOnceReceived ==
    \A i, j \in ReceivedAt :
        Triple(trace[i].arg) = Triple(trace[j].arg) => i = j

ReceivedInFirstListingCycle ==
    \A i \in ReceivedAt :
        \A c \in 1..(trace[i].cycle - 1) : ~Lists(c, Triple(trace[i].arg))

C1_OnceAndInFirstCycle == AtMostOnceReceived /\ ReceivedInFirstListingCycle

(***************************************************************************)
(* C2  If a record was surfaced in an earlier poll cycle and a later cycle *)
(* lists a record (with string fields) that differs from it in exactly one *)
(* of index, date, sender, then once the later cycle is over the later     *)
(* record has a "received" event of its own.                               *)
(***************************************************************************)
C2_OneFieldChangeIsReceived ==
    \A i \in ReceivedAt :
        \A c \in (trace[i].cycle + 1)..cycle :
            CycleOver(c) /\ fetched[c].ok =>
                \A k \in 1..Len(FetchedRecords(c)) :
                    LET t == Triple(FetchedRecords(c)[k])
                    IN  StrTriple(t) /\ OneFieldDiffers(Triple(trace[i].arg), t)
                            => ReceivedBy(c, t)

(***************************************************************************)
(* Blocks of a listing, for the claims about the parser.  The block of the *)
(* Status: line at p starts after the last Status: line or separator       *)
(* before p.                                                               *)
(***************************************************************************)
Max(S) == CHOOSE x \in S : \A y \in S : y <= x

BlockStart(ls, p) ==
    1 + Max({0} \cup {q \in 1..(p - 1) : LineKind(ls[q]) \in {"status", "separator"}})

\* the last line of the kind in the block that p closes, 0 if there is none
LastOf(ls, p, kind) ==
    Max({0} \cup {q \in BlockStart(ls, p)..p : LineKind(ls[q]) = kind})

FieldKinds == {"index", "date", "sender", "text", "status"}

WellFormed(ls, p) == \A kind \in FieldKinds : LastOf(ls, p, kind) # 0

\* the exact remainder of the line after its first colon-space
Remainder(line) == SubSeq(line, Find(line, ColonSpace, 1) + 2, Len(line))

StatusLines(ls) == {q \in 1..Len(ls) : LineKind(ls[q]) = "status"}

CallsOf(c) == {i \in CallAt : trace[i].cycle = c}

(***************************************************************************)
(* C3  For every well-formed block (Index:, Date:, Sender:, Text: lines    *)
(* present, closed by a Status: line) each of the five fields of the       *)
(* record handed to message_arrived equals the exact remainder of its line *)
(* after the first colon-space.                                            *)
(***************************************************************************)
C3_FieldsAreExactRemainders ==
    \A i \in CallAt :
        LET ls == FetchedLines(trace[i].cycle)
            p == trace[i].at
        IN  WellFormed(ls, p) =>
                \A kind \in FieldKinds :
                    trace[i].arg[kind] = Remainder(ls[LastOf(ls, p, kind)])

(***************************************************************************)
(* C4  A block without a Status: line before the end of the input is never *)
(* emitted: when a poll cycle is over, the number of records it passed to  *)
(* message_arrived equals the number of Status: lines of its listing, and  *)
(* every value of a record it passed comes from a line at or before the    *)
(* record's Status: line (so from no line of an unterminated last block).  *)
(***************************************************************************)
CallsEqualStatusLines ==
    \A c \in 1..cycle :
        CycleOver(c) /\ fetched[c].ok =>
            Cardinality(CallsOf(c)) = Cardinality(StatusLines(FetchedLines(c)))

ValuesComeFromTheBlock ==
    \A i \in CallAt :
        LET ls == FetchedLines(trace[i].cycle)
        IN  \A kind \in FieldKinds :
                IsStr(trace[i].arg[kind]) =>
                    \E q \in 1..trace[i].at :
                        /\ LineKind(ls[q]) = kind
                        /\ trace[i].arg[kind] \in {IndexValue(ls[q]), FieldValue(ls[q])}

C4_UnterminatedBlockNotEmitted == CallsEqualStatusLines /\ ValuesComeFromTheBlock

(***************************************************************************)
(* C5  The retention decision taken for a record is to delete if and only  *)
(* if a delete_after duration is configured, the record's date parses and  *)
(* now minus the record's timestamp is greater than the configured         *)
(* duration (a duration of zero included); with no delete_after configured *)
(* the poll cycle never issues a delete request.                           *)
(***************************************************************************)
\* the decision the claim describes, for the configuration as given
ClaimedDelete(message) ==
    /\ DictTruthy(config)
    /\ strptime(message.date).ok
    /\ now - strptime(message.date).secs > timedelta(config.kwargs).secs

\* the step that leaves the retention check issues an sms_delete request
DeleteIssued ==
    /\ Len(trace') > Len(trace)
    /\ trace'[Len(trace) + 1].kind = "request"
    /\ trace'[Len(trace) + 1].name = "sms_delete"

C5_RetentionDecision ==
    /\ [][pc = "retention" /\ pc' # "retention"
            => (DeleteIssued <=> ClaimedDelete(slots))]_vars
    /\ [](~DictTruthy(config) => DeleteAt = {})

(***************************************************************************)
(* C6  A record whose date string does not parse never triggers deletion:  *)
(* the retention check issues no delete request for it, whatever           *)
(* delete_after is.                                                        *)
(***************************************************************************)
\* the entries of trace that the call of message_arrived at i produced
SameRecord(i, j) ==
    trace[j].cycle = trace[i].cycle /\ trace[j].at = trace[i].at

C6_UnparseableDateNeverDeleted ==
    \A i \in CallAt :
        /\ trace[i].arg.date \in ListedDates
        /\ trace[i].arg.date \in UnparseableDates =>
                \A j \in DeleteAt : ~SameRecord(i, j)

\* the retention check has run, with a duration set, on a record whose date
\* does not parse
C6_Witness ==
    /\ TimedeltaTruthy(delete_after)
    /\ \E i \in CallAt :
        /\ IsStr(trace[i].arg.date)
        /\ ~strptime(trace[i].arg.date).ok
        /\ \E j \in RaiseAt : SameRecord(i, j) /\ trace[j].name = "ValueError"

(***************************************************************************)
(* C7  Processing a listing never fails on malformed input: no poll cycle  *)
(* raises while it reads the response, and a block with a Status: line     *)
(* that lacks some of Index:, Date:, Sender:, Text: is still emitted with  *)
(* the missing fields absent and, when new, published as "received".       *)
(***************************************************************************)
C7_NeverFailsOnMalformedInput ==
    /\ \A i \in RaiseAt : trace[i].name \notin {"TypeError", "ValueError"}
    /\ \A i \in CallAt :
        \/ \E j \in ReceivedAt : SameRecord(i, j)
        \/ \E j \in ReceivedAt :
              j < i /\ Triple(trace[j].arg) = Triple(trace[i].arg)

(***************************************************************************)
(* C8  Every completed send issues exactly one sms_send request and then   *)
(* publishes exactly one event whose payload is the response text of that  *)
(* request: handle_send_single(number, text) sends number, text and        *)
(* publishes on sent/single/<number>; handle_send_group(group, text) sends *)
(* group, text and publishes on sent/group/<group>; neither uses the       *)
(* parameter or the topic of the other.                                    *)
(***************************************************************************)
\* the history of a completed handler is one returned request to endpoint
\* with params, then one publication on topic of the response text
RequestThenPublish(log, endpoint, params, topic) ==
    /\ Len(log) = 2
    /\ log[1].kind = "request"
    /\ log[1].name = endpoint
    /\ log[1].ok
    /\ log[1].arg = params
    /\ log[2].kind = "publish"
    /\ log[2].name = topic
    /\ log[2].text = log[1].text

C8_SendRequestsAndConfirms ==
    \A id \in 1..Len(ops) :
        LET f == ops[id]
        IN  /\ f.fn = "handle_send_single" /\ f.state = "published" =>
                RequestThenPublish(f.log, "sms_send",
                    [username |-> Username, password |-> Password,
                     number |-> f.arg, text |-> f.text],
                    "sent/single/" \o f.arg)
            /\ f.fn = "handle_send_group" /\ f.state = "published" =>
                RequestThenPublish(f.log, "sms_send",
                    [username |-> Username, password |-> Password,
                     group |-> f.arg, text |-> f.text],
                    "sent/group/" \o f.arg)

\* a send to a number and a send to a group have both completed
C8_Witness ==
    /\ \E id \in 1..Len(ops) :
        ops[id].fn = "handle_send_single" /\ ops[id].state = "published"
    /\ \E id \in 1..Len(ops) :
        ops[id].fn = "handle_send_group" /\ ops[id].state = "published"

(***************************************************************************)
(* C9  Every delete request that returns, from the delete handler or from  *)
(* the retention check, is followed by exactly one "deleted" event with    *)
(* the response text, and there is no "deleted" event without the request  *)
(* before it: the "deleted" events are always as many as the returned      *)
(* delete requests.                                                        *)
(***************************************************************************)
IsDeleteReturned(e) == e.kind = "request" /\ e.name = "sms_delete" /\ e.ok

IsDeleted(e) == e.kind = "publish" /\ e.name = "deleted"

\* in one history publications and returned requests pair off, the request
\* first and the publication with its text right after it
DeletesPairOff(log) ==
    /\ \A k \in 1..Len(log) :
        IsDeleted(log[k]) =>
            /\ k > 1
            /\ IsDeleteReturned(log[k - 1])
            /\ log[k].text = log[k - 1].text
    /\ \A k \in 1..Len(log) :
        IsDeleteReturned(log[k]) => k < Len(log) /\ IsDeleted(log[k + 1])

Count(log, P(_)) == Cardinality({k \in 1..Len(log) : P(log[k])})

\* the entries of the first n handler histories that are returned delete
\* requests (returned = TRUE) or "deleted" publications (returned = FALSE)
RECURSIVE HandlerCount(_, _)
HandlerCount(n, returned) ==
    IF n = 0 THEN 0
    ELSE (IF returned THEN Count(ops[n].log, IsDeleteReturned)
                      ELSE Count(ops[n].log, IsDeleted))
         + HandlerCount(n - 1, returned)

C9_DeletedPerDeleteRequest ==
    /\ DeletesPairOff(trace)
    /\ \A id \in 1..Len(ops) : DeletesPairOff(ops[id].log)
    /\ Count(trace, IsDeleted) + HandlerCount(Len(ops), FALSE)
         = Count(trace, IsDeleteReturned) + HandlerCount(Len(ops), TRUE)

\* a retention delete and a delete from the bus have both been published
C9_Witness ==
    /\ \E k \in 1..Len(trace) : IsDeleted(trace[k])
    /\ \E id \in 1..Len(ops) :
        \E k \in 1..Len(ops[id].log) : IsDeleted(ops[id].log[k])

(***************************************************************************)
(* C10  When the request of a send or delete raises (device unreachable,   *)
(* timeout) the operation is abandoned: its history is the one failed      *)
(* request and the exception, with no publication and no second request,   *)
(* and the step leaves the dedup set and the configuration unchanged.      *)
(***************************************************************************)
IsFailedRequest(e) ==
    e.kind = "request" /\ ~e.ok /\ e.name \in {"sms_send", "sms_delete"}

\* a handler whose request raised did that request and nothing else
HandlerAbandoned(log) ==
    (\E k \in 1..Len(log) : IsFailedRequest(log[k])) =>
        /\ Len(log) = 2
        /\ IsFailedRequest(log[1])
        /\ log[2].kind = "raise"

\* a retention delete whose request raised ends its cycle there
RetentionDeleteAbandoned ==
    \A k \in 1..Len(trace) :
        IsFailedRequest(trace[k]) =>
            /\ k < Len(trace)
            /\ trace[k + 1].kind = "raise"
            /\ \A j \in (k + 2)..Len(trace) : trace[j].cycle # trace[k].cycle
            /\ \A j \in 1..(k - 1) :
                  ~(IsFailedRequest(trace[j]) /\ SameRecord(j, k))

\* this step is a send or delete whose request raises
RequestRaises ==
    \/ /\ Len(ops') > Len(ops)
       /\ \E k \in 1..Len(ops'[Len(ops')].log) :
             IsFailedRequest(ops'[Len(ops')].log[k])
    \/ /\ Len(trace') > Len(trace)
       /\ IsFailedRequest(trace'[Len(trace) + 1])

C10_FailedRequestIsAbandoned ==
    /\ [](RetentionDeleteAbandoned
          /\ \A id \in 1..Len(ops) : HandlerAbandoned(ops[id].log))
    /\ [][RequestRaises =>
            /\ messages_seen' = messages_seen
            /\ delete_after' = delete_after
            /\ config' = config]_vars

\* a handler and a retention delete have both been abandoned, with
\* identities in the dedup set
C10_Witness ==
    /\ messages_seen # {}
    /\ \E k \in 1..Len(trace) : IsFailedRequest(trace[k])
    /\ \E id \in 1..Len(ops) : ops[id].state = "failed"

(***************************************************************************)
(* C11  A poll cycle whose sms_list request raises abandons only that      *)
(* cycle: all it does is the failed request and the exception (no          *)
(* "received" or "deleted" publication, no call of message_arrived, no     *)
(* delete request), and the step leaves everything a later cycle reads     *)
(* (the dedup set, the configuration, the clock, the position of the loop) *)
(* as it was, so the next cycle runs as if the failed one had not          *)
(* happened.                                                               *)
(***************************************************************************)
\* the entries of trace that cycle c wrote, in order
EventsOf(c) == SelectSeq(trace, LAMBDA e : e.cycle = c)

FailedFetches == {c \in 1..Len(fetched) : ~fetched[c].ok}

FailedCycleDoesNothing ==
    \A c \in FailedFetches :
        LET es == EventsOf(c)
        IN  /\ Len(es) = 2
            /\ es[1].kind = "request" /\ es[1].name = "sms_list" /\ ~es[1].ok
            /\ es[2].kind = "raise"

\* this step is a cycle whose sms_list request raises
FetchRaises == Len(fetched') > Len(fetched) /\ ~fetched'[Len(fetched')].ok

C11_FailedFetchAbandonsOnlyItsCycle ==
    /\ [](FailedCycleDoesNothing)
    /\ [][FetchRaises =>
            /\ messages_seen' = messages_seen
            /\ delete_after' = delete_after
            /\ config' = config
            /\ device' = device
            /\ now' = now
            /\ pc' = pc /\ pc = "idle"]_vars

\* a cycle whose fetch failed was followed by a cycle that ran through
\* its listing and published
C11_Witness ==
    \E c \in FailedFetches :
        /\ c < cycle
        /\ fetched[c + 1].ok
        /\ CycleOver(c + 1)
        /\ \A i \in RaiseAt : trace[i].cycle # c + 1
        /\ \E i \in ReceivedAt : trace[i].cycle = c + 1

(***************************************************************************)
(* C12  The dedup set is empty when the service is constructed and every   *)
(* step of every operation (poll cycle, send, delete, retention delete)    *)
(* leaves it a superset of what it was: no identity is ever removed, and   *)
(* the identity of every message published as "received" stays in it,      *)
(* also after the message was deleted from the device.                     *)
(***************************************************************************)
SurfacedStaySeen ==
    \A i \in ReceivedAt : Identity(trace[i].arg) \in messages_seen

C12_DedupSetOnlyGrows ==
    /\ messages_seen = {}
    /\ [][messages_seen \subseteq messages_seen']_vars
    /\ []SurfacedStaySeen

\* a surfaced message was deleted by the retention check, a handler has
\* run, and the identity of the message is still in the set
C12_Witness ==
    /\ \E i \in ReceivedAt :
        /\ Identity(trace[i].arg) \in messages_seen
        /\ \E j \in DeleteAt :
              SameRecord(i, j) /\ trace[j].ok /\ j < Len(trace)
    /\ Len(ops) > 0

(***************************************************************************)
(* C13  A poll cycle that starts with an empty dedup set on a listing of   *)
(* two fully formed blocks separated by a dash-line passes exactly two     *)
(* records to message_arrived, in input order, and each of the two has     *)
(* exactly one "received" publication, whatever the field values are, as   *)
(* long as the device answers the requests of the cycle.                   *)
(***************************************************************************)
\* the listing is two blocks with all five fields, a separator between them
TwoFullBlocks(ls) ==
    /\ Cardinality(StatusLines(ls)) = 2
    /\ \A p \in StatusLines(ls) : WellFormed(ls, p)
    /\ \E q \in 1..Len(ls) :
        /\ LineKind(ls[q]) = "separator"
        /\ \E p1, p2 \in StatusLines(ls) : p1 < q /\ q < p2

TwoBlockListings == {n \in Listings : TwoFullBlocks(ListingLines[n])}

\* no message was surfaced before cycle c
StartsUnseen(c) == \A i \in ReceivedAt : trace[i].cycle >= c

\* every request that cycle c sent to the device returned
DeviceAnswered(c) ==
    \A k \in 1..Len(trace) : trace[k].cycle = c => ~IsFailedRequest(trace[k])

C13_TwoBlocksTwoReceived ==
    \A c \in 1..cycle :
        /\ CycleOver(c)
        /\ fetched[c].ok
        /\ fetched[c].listing \in TwoBlockListings
        /\ StartsUnseen(c)
        /\ DeviceAnswered(c)
        => /\ {trace[i].at : i \in CallsOf(c)} = StatusLines(FetchedLines(c))
           /\ \A i, j \in CallsOf(c) : i < j => trace[i].at < trace[j].at
           /\ \A i \in CallsOf(c) :
                Cardinality({j \in ReceivedAt : SameRecord(i, j)}) = 1

(***************************************************************************)
(* C14  Every record passed to message_arrived carries only values of its  *)
(* own block, the lines after the previous Status: line or separator: a    *)
(* field the block has a line for holds the value of that line, and a      *)
(* field the block lacks is absent (None), never the value of an earlier   *)
(* block, with or without a separator line between the blocks.             *)
(***************************************************************************)
C14_RecordsCarryOnlyOwnBlock ==
    \A i \in CallAt :
        LET ls == FetchedLines(trace[i].cycle)
            p == trace[i].at
        IN  \A kind \in FieldKinds :
                LET q == LastOf(ls, p, kind)
                IN  IF q = 0
                    THEN trace[i].arg[kind] = None
                    ELSE trace[i].arg[kind] \in {IndexValue(ls[q]), FieldValue(ls[q])}

(***************************************************************************)
(* C15  The retention check is not deduplicated.  Whenever the check runs  *)
(* on a record that satisfies the retention condition a delete request is  *)
(* issued for it, whether or not its identity was already in the dedup     *)
(* set; and a record for which a delete request was issued (so it is past  *)
(* the retention duration) gets a delete request again in every later poll *)
(* cycle that lists it, provided the device answers that cycle's requests. *)
(***************************************************************************)
\* the record that the delete request at j was issued for
DeletedRecordsAt(j) == {trace[i].arg : i \in {i \in CallAt : SameRecord(i, j)}}

\* cycle c issued a delete request for the record
DeletedIn(c, message) ==
    \E j \in DeleteAt : trace[j].cycle = c /\ message \in DeletedRecordsAt(j)

DeletedAgainInEveryCycle ==
    \A j \in DeleteAt :
        \A c \in (trace[j].cycle + 1)..cycle :
            CycleOver(c) /\ fetched[c].ok /\ DeviceAnswered(c) =>
                \A k \in 1..Len(FetchedRecords(c)) :
                    FetchedRecords(c)[k] \in DeletedRecordsAt(j)
                        => DeletedIn(c, FetchedRecords(c)[k])

C15_RetentionNotDeduplicated ==
    /\ [][pc = "retention" /\ pc' # "retention"
            /\ ShouldDelete(slots, delete_after, now) => DeleteIssued]_vars
    /\ []DeletedAgainInEveryCycle

(***************************************************************************)
(* C16  Within one poll cycle the records are processed in listing order,  *)
(* one at a time: all events and requests of a record come before those of *)
(* any record further down the listing, and for one record the call of     *)
(* message_arrived comes first, then its "received" publication (if it is  *)
(* new), then its retention delete request, then the "deleted"             *)
(* publication.                                                            *)
(***************************************************************************)
\* the rank of an entry of trace within the processing of one record
Stage(e) ==
    CASE e.kind = "call" -> 1
      [] e.kind = "publish" /\ e.name = "received" -> 2
      [] e.kind = "request" /\ e.name = "sms_delete" -> 3
      [] e.kind = "publish" /\ e.name = "deleted" -> 4
      [] OTHER -> 5

\* entry by entry: the cycles follow each other, within a cycle the position
\* in the listing never goes back, and at one Status: line the stages follow
\* each other (the order of any two entries follows by transitivity)
C16_RecordsInListingOrder ==
    \A i \in 1..(Len(trace) - 1) :
        /\ trace[i].cycle <= trace[i + 1].cycle
        /\ trace[i].cycle = trace[i + 1].cycle =>
            /\ trace[i].at <= trace[i + 1].at
            /\ trace[i].at = trace[i + 1].at /\ trace[i].at > 0
                    => Stage(trace[i]) < Stage(trace[i + 1])

\* one cycle surfaced and deleted a record and then surfaced the next one
C16_Witness ==
    \E i, j \in ReceivedAt :
        /\ trace[i].cycle = trace[j].cycle
        /\ trace[i].at < trace[j].at
        /\ \E d \in DeleteAt :
            /\ SameRecord(i, d) /\ trace[d].ok
            /\ trace[d + 1].name = "deleted"
            /\ i < d /\ d + 1 < j

(***************************************************************************)
(* C17  The dedup set is changed only by steps of the poll cycle.  Every   *)
(* step of handle_send_single, handle_send_group and handle_delete,        *)
(* wherever it falls between the steps of a poll cycle, leaves the dedup   *)
(* set, the retention configuration and the whole state and history of     *)
(* the poll cycle as they were, and the poll cycle never touches the       *)
(* handlers' state; the dedup set is always exactly the identities of the  *)
(* records the poll cycles passed through the dedup check.  The "received" *)
(* events of the polls are therefore the same with and without handlers in *)
(* between.                                                                *)
(***************************************************************************)
\* this step is an on-demand operation
HandlerStep == ops' # ops

SeenByPolls ==
    {Identity(trace[i].arg) : i \in {i \in CallAt : ~ConcatRaises(trace[i].arg)}}

UnparseableAt ==
    {i \in CallAt : trace[i].arg.date \in UnparseableDates}

C18_UnparseableDateIsNoError ==
    \A i \in UnparseableAt :
        /\ \A j \in RaiseAt : SameRecord(i, j) => trace[j].name # "ValueError"
        /\ CycleOver(trace[i].cycle) /\ DeviceAnswered(trace[i].cycle) =>
                \A p \in StatusLines(FetchedLines(trace[i].cycle)) :
                    p > trace[i].at =>
                        \E k \in CallsOf(trace[i].cycle) : trace[k].at = p

(***************************************************************************)
(* C19  The dedup identity is injective on (index, date, sender): two      *)
(* records passed through the dedup check with different triples never     *)
(* have the same identity, and a record is suppressed as already seen only *)
(* when a record with exactly the same triple was surfaced before it.      *)
(***************************************************************************)
\* the calls of message_arrived that got past the concatenation
DedupAt == {i \in CallAt : ~ConcatRaises(trace[i].arg)}

Suppressed(i) == \A j \in ReceivedAt : ~SameRecord(i, j)

C19_IdentityIsInjective ==
    /\ \A i, j \in DedupAt :
        Identity(trace[i].arg) = Identity(trace[j].arg)
            => Triple(trace[i].arg) = Triple(trace[j].arg)
    /\ \A i \in DedupAt :
        Suppressed(i) =>
            \E j \in ReceivedAt :
                j < i /\ Triple(trace[j].arg) = Triple(trace[i].arg)

(***************************************************************************)
(* The poll loop on a device that answers: the listing on the device stays *)
(* what it is, every request returns, and the loop of miqro keeps calling  *)
(* read_and_publish, tick after tick without end; a call keeps running     *)
(* until it returns or raises.  The histories hold the current cycle only, *)
(* the state of the service (the dedup set) carries over.                  *)
(***************************************************************************)
InitLive ==
    /\ config \in Configs
    /\ delete_after = InitDeleteAfter(config)
    /\ messages_seen = {}
    /\ now \in Instants
    /\ pc = "idle"
    /\ cycle = 0
    /\ sms_list = ""
    /\ pos = 0
    /\ slots = NoSlots
    /\ ops = <<>>
    /\ device \in {{listing} : listing \in Listings}
    /\ fetched = <<>>
    /\ trace = <<>>

\* a tick: read_and_publish is called again and its sms_list request returns
PollFetchAgain ==
    /\ pc = "idle"
    /\ \E listing \in device :
        /\ sms_list' = listing
        /\ fetched' = <<Fetched(listing)>>
        /\ trace' = <<[Request(0, "sms_list", ListParams, "") EXCEPT !.cycle = 1]>>
    /\ cycle' = 1
    /\ pc' = "loop"
    /\ pos' = 1
    /\ slots' = NoSlots
    /\ UNCHANGED <<service, messages_seen, now, ops>>

\* a step of the loop: the next tick's fetch, or the next step of the cycle
PollStep ==
    \/ PollFetchAgain
    \/ PollLine
    \/ PollArrivedTypeError
    \/ PollArrived
    \/ PollKeep
    \/ PollValueError
    \/ PollDelete
    \/ PollReturn

NextLive ==
    \/ Tick
    \/ PollFetchAgain
    \/ PollLine
    \/ PollArrivedTypeError
    \/ PollArrived
    \/ PollKeep
    \/ PollValueError
    \/ PollDelete
    \/ PollReturn

SpecLive == InitLive /\ [][NextLive]_vars /\ WF_vars(PollStep)

(***************************************************************************)
(* C20  Eventual delivery: when the poll ticks keep occurring and the      *)
(* device answers, every record of the device's listing that is closed by  *)
(* a Status: line is eventually published as "received", whatever records  *)
(* stand before it in the listing (records with missing fields or          *)
(* unparseable dates included) and whatever the retention configuration.   *)
(***************************************************************************)
\* the Status: line p of the device's listing has a "received" publication
\* for the record it closes
ReceivedAtLine(p) ==
    \A listing \in device :
        p \in StatusLines(ListingLines[listing]) =>
            \E i \in ReceivedAt :
                trace[i].at = p /\ fetched[trace[i].cycle].listing = listing

\* the lines that are the Status: line of some listing
StatusPositions == UNION {StatusLines(ListingLines[n]) : n \in Listings}

C20_EventualDelivery == \A p \in StatusPositions : <>ReceivedAtLine(p)

=============================================================================
